---- MODULE Spec2Model ----
(***************************************************************************)
(* SPEAR beam-current simulator IOC (src/sim_spear.py).                    *)
(*                                                                         *)
(* The IOC is a caproto PVGroup: seven process variables, four plain       *)
(* attributes of the group, and one startup coroutine (the simulation      *)
(* loop) that runs beside the putters serving external write requests.     *)
(*                                                                         *)
(* Units.  The program computes in floats; the model computes in fixed     *)
(* point:                                                                  *)
(*    currents   1 unit = 1e-6 mA      (500 mA  = 500000000)               *)
(*    times      1 unit = 1 us         (1 ms    = 1000)                    *)
(*    rates      1 unit = 0.1 mA/s     (0.5 mA/s = 5, 20 mA/s = 200)       *)
(* Enumerations are their indices, as in the PVs:                          *)
(*    State        0 Beam, 1 Inject, 2 AccPhy, 3 Down                      *)
(*    InjectState  0 No Injection, 1 Beamline Wait, 2 Injection            *)
(*    Alarm        0 OK, 1 WARNING, 2 ERROR                                *)
(*                                                                         *)
(* Scheduling.  The loop and the putters are coroutines of one event loop. *)
(* Every `await pv.write(...)` of the loop and its final sleep are points  *)
(* where the loop may be suspended and a putter may run; the code takes no *)
(* lock.  pc names the await the loop is suspended at ("aNNN" = the await  *)
(* on source line NNN, "sleep" = line 232 or not yet started, "crashed" =  *)
(* the coroutine ended with an exception).  The State putter awaits a      *)
(* write too, `await self.alarm.write(0)` on line 273, between its flag    *)
(* updates and its return: "pNNN" = the loop is suspended there, inside    *)
(* the state.write of line NNN, State not yet stored; a client's State     *)
(* request suspended there is counted in `pending`.  The putter takes no   *)
(* lock either: any number of client State requests may be suspended in it *)
(* at a time, each judged against the store of the moment it was taken up, *)
(* and they return in any order.  The other putters await nothing: each,   *)
(* with the store of the value it returns, is one step.                    *)
(*                                                                         *)
(* Every action is one step of one coroutine, from one suspension point to *)
(* the next.  The decay from 500 mA to the injection threshold takes       *)
(* 313189 iterations of the loop and a ramp 10000 or more, so a behaviour  *)
(* followed step by step from the construction covers the first            *)
(* iterations only; Init therefore also admits the states the program is   *)
(* in after a given number of undisturbed iterations (no client request,   *)
(* no fault drawn) since the construction, listed in StartStates.          *)
(*                                                                         *)
(* PV values.  caproto hands a putter of an enum PV the requested index or *)
(* the enum string, which is why the State and InjectState putters accept  *)
(* both; DebugInjecting (dtype=bool, strings Off/On) has a putter that     *)
(* applies bool() to what it is handed, so its requests are modelled in    *)
(* both forms.                                                             *)
(***************************************************************************)
EXTENDS Integers, FiniteSets, Sequences, TLC

\* ---------------------------------------------------------------- constants
INJECT_THRESHOLD == 495000000
INJECT_RATE == 5
INJECT_RATE_SEC == 200
inject_delay == 1
I_0 == 500000000
tau == 31162
loop_interval == 1000
DES_MAX == 500000000
MIN_MAX == 100000000

\* ------------------------------------------------------------------- bounds
\* External write requests served in one behaviour.
MaxWrites == 3
\* Wake-ups of the loop from its sleep in one behaviour.
MaxTicks == 3
\* sim_time stays within the range where Decay is accurate (400 s).
MaxSimTime == 400000000

\* Values external clients request.
StateRequests == 0..4
InjectStateRequests == 0..3
DesRequests == {400000000, 600000000}
MinRequests == {0 - 5000000}
\* Set points an operator requests: below, inside and above the range.
OperatorDesRequests == {0 - 5000000, 400000000, 600000000}
OperatorMinRequests == {0 - 5000000, 150000000}
AvgRequests == {600000000}
AlarmRequests == {1}
\* DebugInjecting requests: the index requested, and whether the putter is
\* handed the enum string ('Off', 'On') instead of the number.
DebugRequests == {[index |-> i, str |-> b] : i \in {0, 1}, b \in BOOLEAN}
\* Numbers of undisturbed iterations since the construction after which a
\* behaviour may start: in the decay (500 and 999 iterations in, and with
\* one iteration left before the one that crosses the threshold), and in
\* the Injection phase of the automatic cycle that follows (counted from
\* the iteration that entered the phase: 3000 iterations in, and one
\* iteration before the timer's value in us reaches 0).
BeamStarts == {500, 999, 313187}
RampStarts == {3000, 9999}

VARIABLES
  \* process variables (the store)
  state, inject_state, beam_curr_avg, beam_curr_avg_min, beam_curr_des,
  alarm, debug_injecting,
  \* attributes of the group
  manual_state_set, injecting, last_state, current_inject_rate,
  \* locals of the simulation loop
  inject_timer, sim_time, inject_duration, curr_state, curr_inject_state,
  curr_avg, pc,
  \* the sign of the rounding error the float inject_timer has accumulated
  \* when its value in us is 0 (0: not determined by the model)
  inject_timer_err,
  \* for each mode, the number of clients' State requests for it whose
  \* putter is suspended at line 273
  pending,
  \* the external write request served last and the reply to it, until the
  \* loop next runs (<<"none", 0>> and -1: none or not yet replied)
  req, ret,
  \* history: no external write since the latest loop iteration started
  fresh,
  \* history: Down was entered by the loop's random fault and no external
  \* State write has been accepted since
  unackFault,
  \* history: the latest external request was an accepted State=Inject made
  \* in Down, and the cycle it started has not completed
  manualCycle,
  \* history: an external State request for a mode other than Inject has
  \* been accepted and no injection cycle has completed since
  override,
  \* counters bounding the behaviour
  ticks, writes

pvars == <<state, inject_state, beam_curr_avg, beam_curr_avg_min,
           beam_curr_des, alarm, debug_injecting, manual_state_set,
           injecting, last_state, current_inject_rate, inject_timer,
           sim_time, inject_duration, curr_state, curr_inject_state,
           curr_avg, pc, inject_timer_err>>

vars == <<pvars, pending, req, ret, fresh, unackFault, manualCycle, override,
          ticks, writes>>

\* The program state as one record, so that the code's straight-line
\* segments compose as functions.
S == [state |-> state, inject_state |-> inject_state,
      beam_curr_avg |-> beam_curr_avg,
      beam_curr_avg_min |-> beam_curr_avg_min,
      beam_curr_des |-> beam_curr_des, alarm |-> alarm,
      debug_injecting |-> debug_injecting,
      manual_state_set |-> manual_state_set, injecting |-> injecting,
      last_state |-> last_state,
      current_inject_rate |-> current_inject_rate,
      inject_timer |-> inject_timer, sim_time |-> sim_time,
      inject_duration |-> inject_duration, curr_state |-> curr_state,
      curr_inject_state |-> curr_inject_state, curr_avg |-> curr_avg,
      pc |-> pc, inject_timer_err |-> inject_timer_err]

Apply(r) ==
  /\ state' = r.state
  /\ inject_state' = r.inject_state
  /\ beam_curr_avg' = r.beam_curr_avg
  /\ beam_curr_avg_min' = r.beam_curr_avg_min
  /\ beam_curr_des' = r.beam_curr_des
  /\ alarm' = r.alarm
  /\ debug_injecting' = r.debug_injecting
  /\ manual_state_set' = r.manual_state_set
  /\ injecting' = r.injecting
  /\ last_state' = r.last_state
  /\ current_inject_rate' = r.current_inject_rate
  /\ inject_timer' = r.inject_timer
  /\ sim_time' = r.sim_time
  /\ inject_duration' = r.inject_duration
  /\ curr_state' = r.curr_state
  /\ curr_inject_state' = r.curr_inject_state
  /\ curr_avg' = r.curr_avg
  /\ pc' = r.pc
  /\ inject_timer_err' = r.inject_timer_err

Min(a, b) == IF a < b THEN a ELSE b
Max(a, b) == IF a > b THEN a ELSE b

\* ------------------------------------------------------------ pure functions

\* I_0 * math.exp(-sim_time / tau), by the series 1 - x + x^2/2 - x^3/6 with
\* x = sim_time / tau <= 0.013 (I_0 * x is `first`); the divisions are split
\* to stay in 32 bits.  t is in us, tau in s; the result is within 4e-6 mA
\* of the float value.
Decay(t) ==
  LET ms == t \div 1000
      k == I_0 \div 2000
      h == tau \div 2
      first == (k \div h) * ms + ((k % h) * ms) \div h
      second == ((first \div 200) * (first \div 200)) \div ((2 * I_0) \div 40000)
      third == (second * (first \div 1000)) \div (3 * (I_0 \div 1000))
  IN I_0 - first + second - third

\* (I_0 - avg) / rate in us.
Duration(avg, rate) == ((I_0 - avg) \div rate) * 10

\* rate * loop_interval in current units.
Increment(rate) == (rate * loop_interval) \div 10

\* The sign of what is left of a float timer set to d us when it has been
\* counted down d / loop_interval times in steps of 0.001: 10.0 leaves
\* 1.0e-13 after 10000 steps, 25.0 leaves -7.6e-12 after 25000; for other
\* durations the fixed-point value does not determine it.
TimerErr(d) == IF d = 10000000 THEN 1 ELSE IF d = 25000000 THEN 0 - 1 ELSE 0

\* `inject_timer <= 0` on a float that has been counted down in steps of
\* 0.001: when the value in us is 0 the accumulated rounding err decides,
\* and where the model does not determine it either outcome e is possible.
Expired(timer, err, e) ==
  timer < 0 \/ (timer = 0 /\ (err < 0 \/ (err = 0 /\ e)))


\* ------------------------------------------------------------------ putters
\* Each putter maps the store and a requested value to the store after the
\* write; the value it returns is the one left in the PV it serves.

\* InjectRefused with the policy check left out.
InjectRefused_Never(s, v) == FALSE

\* The State putter's policy check (line 264): a request for Inject while
\* no injection is in progress and the machine is not Down.
InjectRefused(s, v) == v = 1 /\ ~s.injecting /\ s.state # 3

StateAccepted(s, v) == v \in 0..3 /\ ~InjectRefused(s, v)

\* StatePutterFlags without the alarm write of line 273.
StatePutterFlags_KeepAlarm(s, v) ==
  IF ~(v \in 0..3) THEN s
  ELSE IF InjectRefused(s, v) THEN s
  ELSE [s EXCEPT
          !.injecting = IF v = 1 /\ s.state = 3 THEN TRUE ELSE @,
          !.current_inject_rate =
              IF v = 1 /\ s.state = 3 THEN INJECT_RATE_SEC ELSE @,
          !.manual_state_set = IF v # 1 THEN TRUE ELSE @]

\* The State putter up to its await (lines 252-273): an invalid or refused
\* request changes nothing (and the putter returns at once, lines 260, 266,
\* 276); an accepted one sets the flags and stores Alarm = OK, and the
\* putter is suspended in that write.
StatePutterFlags(s, v) ==
  IF ~(v \in 0..3) THEN s
  ELSE IF InjectRefused(s, v) THEN s
  ELSE [s EXCEPT
          !.injecting = IF v = 1 /\ s.state = 3 THEN TRUE ELSE @,
          !.current_inject_rate =
              IF v = 1 /\ s.state = 3 THEN INJECT_RATE_SEC ELSE @,
          !.manual_state_set = IF v # 1 THEN TRUE ELSE @,
          !.alarm = 0]

\* The putter resumes and returns int(value) (line 274), which the write
\* stores in State.
StatePutterStore(s, v) == [s EXCEPT !.state = v]

InjectStatePutter(s, v) ==
  IF v \in 0..2 THEN [s EXCEPT !.inject_state = v] ELSE s

\* BeamCurrDesPutter without the upper clamp of line 238.
BeamCurrDesPutter_NoUpperClamp(s, v) ==
  [s EXCEPT !.beam_curr_des = Max(0, v)]

BeamCurrDesPutter(s, v) ==
  [s EXCEPT !.beam_curr_des = Max(0, Min(v, DES_MAX))]

BeamCurrAvgMinPutter(s, v) ==
  [s EXCEPT !.beam_curr_avg_min = Max(0, Min(v, MIN_MAX))]

\* bool(value) of line 300: a number is true when it is not 0, a string when
\* it is not empty.
Bool(v) == IF v.str THEN TRUE ELSE v.index # 0

\* Lines 296-302: the value handed over is returned and stored.
DebugInjectingPutter(s, v) ==
  [s EXCEPT !.injecting = Bool(v), !.debug_injecting = (v.index = 1)]

\* BeamCurrAvg and Alarm are declared without a putter and without
\* read_only: a write request stores the requested value.
BeamCurrAvgWrite(s, v) == [s EXCEPT !.beam_curr_avg = v]

AlarmWrite(s, v) == IF v \in 0..2 THEN [s EXCEPT !.alarm = v] ELSE s

\* ------------------------------------------------------ the simulation loop
\* Each operator is the code from one point of the loop body up to (and
\* including) the next `await pv.write(...)`, whose line its pc names.

\* Line 229 and the sleep of line 232.
EndTick(s) == [s EXCEPT !.last_state = s.curr_state, !.pc = "sleep"]

\* Lines 206-226, entered after the write of line 204; f is the outcome of
\* random.random() < 0.001 * loop_interval.
FaultDraw(s, f) ==
  s.curr_inject_state = 0 /\ f /\ ~s.manual_state_set /\ s.curr_state # 3

AfterCommit(s, f) ==
  IF FaultDraw(s, f)
    THEN [StatePutterFlags(s, 3) EXCEPT !.pc = "p209"]
  ELSE IF s.curr_state # 3 /\ ~s.injecting
    THEN [s EXCEPT !.alarm = 0, !.pc = "a225"]
  ELSE EndTick(s)

\* Line 211, 212-221 (the e-mail changes no state), then the end of the
\* iteration.
AfterFaultState(s) == [s EXCEPT !.alarm = 1, !.pc = "a211"]

\* Line 226.
AfterAlarmClear(s) == EndTick([s EXCEPT !.manual_state_set = FALSE])

\* Line 204.
Commit(s) == [s EXCEPT !.beam_curr_avg = s.curr_avg, !.pc = "a204"]

\* BeamBranch without the decay of line 147: the snapshot of BeamCurrAvg is
\* kept.
BeamBranch_NoDecay(s) ==
  LET b == [s EXCEPT !.injecting = FALSE,
                     !.current_inject_rate = INJECT_RATE,
                     !.inject_duration = Duration(INJECT_THRESHOLD, INJECT_RATE)]
  IN IF b.curr_avg < INJECT_THRESHOLD /\ s.curr_inject_state = 0
          /\ ~s.manual_state_set
       THEN [StatePutterFlags([b EXCEPT !.injecting = TRUE], 1)
               EXCEPT !.pc = "p151"]
       ELSE Commit(b)

\* BeamBranch triggering the injection whatever the injection phase.
BeamBranch_NoPhaseCheck(s) ==
  LET d == Decay(s.sim_time)
      b == [s EXCEPT !.injecting = FALSE,
                     !.current_inject_rate = INJECT_RATE,
                     !.inject_duration = Duration(INJECT_THRESHOLD, INJECT_RATE),
                     !.curr_avg = d]
  IN IF d < INJECT_THRESHOLD /\ ~s.manual_state_set
       THEN [StatePutterFlags([b EXCEPT !.injecting = TRUE], 1)
               EXCEPT !.pc = "p151"]
       ELSE Commit(b)

\* Lines 142-151.
BeamBranch(s) ==
  LET d == Decay(s.sim_time)
      b == [s EXCEPT !.injecting = FALSE,
                     !.current_inject_rate = INJECT_RATE,
                     !.inject_duration = Duration(INJECT_THRESHOLD, INJECT_RATE),
                     !.curr_avg = d]
  IN IF d < INJECT_THRESHOLD /\ s.curr_inject_state = 0 /\ ~s.manual_state_set
       THEN [StatePutterFlags([b EXCEPT !.injecting = TRUE], 1)
               EXCEPT !.pc = "p151"]
       ELSE Commit(b)

\* Lines 172-178: one step of the ramp.
Ramp(avg, rate) ==
  Min(IF avg < I_0 THEN avg + Increment(rate) ELSE avg, I_0)

\* InjectBranch without the check of line 154: Inject without the injecting
\* flag goes through the phases.
InjectBranch_NoRecovery(s, e) ==
  IF s.curr_inject_state = 0
    THEN [InjectStatePutter(s, 1) EXCEPT !.pc = "a163"]
  ELSE IF s.curr_inject_state = 1
    THEN LET t == [s EXCEPT !.inject_timer = @ - loop_interval]
         IN IF Expired(t.inject_timer, s.inject_timer_err, e)
              THEN [InjectStatePutter(t, 2) EXCEPT !.pc = "a170"]
              ELSE Commit(t)
  ELSE LET t == [s EXCEPT !.inject_timer = @ - loop_interval,
                          !.curr_avg = Ramp(@, s.current_inject_rate)]
       IN IF Expired(t.inject_timer, s.inject_timer_err, e)
            THEN [InjectStatePutter(t, 0) EXCEPT !.pc = "a181"]
            ELSE Commit(t)

\* Lines 153-186.
InjectBranch(s, e) ==
  IF ~s.injecting
    THEN [InjectStatePutter(s, 0) EXCEPT !.pc = "a156"]
  ELSE IF s.curr_inject_state = 0
    THEN [InjectStatePutter(s, 1) EXCEPT !.pc = "a163"]
  ELSE IF s.curr_inject_state = 1
    THEN LET t == [s EXCEPT !.inject_timer = @ - loop_interval]
         IN IF Expired(t.inject_timer, s.inject_timer_err, e)
              THEN [InjectStatePutter(t, 2) EXCEPT !.pc = "a170"]
              ELSE Commit(t)
  ELSE LET t == [s EXCEPT !.inject_timer = @ - loop_interval,
                          !.curr_avg = Ramp(@, s.current_inject_rate)]
       IN IF Expired(t.inject_timer, s.inject_timer_err, e)
            THEN [InjectStatePutter(t, 0) EXCEPT !.pc = "a181"]
            ELSE Commit(t)

\* Lines 188-194: line 190 reads min_curr, a name bound nowhere; the
\* NameError ends the coroutine before any write.
AccPhyBranch(s) == [s EXCEPT !.pc = "crashed"]

\* Lines 196-201.
DownBranch(s) ==
  LET d == [s EXCEPT !.curr_avg = 0]
  IN IF s.curr_inject_state # 0
       THEN [InjectStatePutter(d, 0) EXCEPT !.pc = "a200"]
       ELSE Commit([d EXCEPT !.injecting = FALSE])

\* Lines 142-204: the dispatch on the snapshot of the mode.
Dispatch(s, e) ==
  CASE s.curr_state = 0 -> BeamBranch(s)
    [] s.curr_state = 1 -> InjectBranch(s, e)
    [] s.curr_state = 2 -> AccPhyBranch(s)
    [] OTHER -> DownBranch(s)

\* Line 133.
EdgeDetected(s) ==
  s.last_state = 3 /\ s.curr_state \in {0, 1} /\ s.manual_state_set

\* Lines 119-140: snapshot, clock, Down-to-Inject/Beam edge.
Start(s, e) ==
  LET a == [s EXCEPT !.curr_state = s.state,
                     !.curr_inject_state = s.inject_state,
                     !.curr_avg = s.beam_curr_avg,
                     !.sim_time = @ + loop_interval]
      b == [a EXCEPT !.current_inject_rate = INJECT_RATE_SEC,
                     !.inject_duration = Duration(a.curr_avg, INJECT_RATE_SEC),
                     !.injecting = TRUE]
  IN IF EdgeDetected(a)
       THEN IF a.curr_state = 0
              THEN [StatePutterFlags(b, 1) EXCEPT !.pc = "p139"]
              ELSE Dispatch(b, e)
       ELSE Dispatch(a, e)

\* The State putter called by the loop on line n returns: the value v is
\* stored in State, and the loop is suspended in the rest of that write.
PutterReturns(s, v, a) == [StatePutterStore(s, v) EXCEPT !.pc = a]

\* The code that follows each await.
AfterRecoveryPhase(s) == [StatePutterFlags(s, 0) EXCEPT !.pc = "p157"]
AfterRecoveryState(s, e) == Start([s EXCEPT !.injecting = FALSE], e)
AfterWaitStart(s) ==
  Commit([s EXCEPT !.inject_timer = inject_delay, !.inject_timer_err = 0])
AfterWaitEnd(s) ==
  Commit([s EXCEPT !.inject_timer = s.inject_duration,
                   !.inject_timer_err = TimerErr(s.inject_duration)])
AfterCompletePhase(s) == [StatePutterFlags(s, 0) EXCEPT !.pc = "p182"]
AfterCompleteState(s) ==
  Commit([s EXCEPT !.injecting = FALSE, !.manual_state_set = FALSE,
                   !.sim_time = 0])
AfterDownPhase(s) == Commit([s EXCEPT !.injecting = FALSE])


\* ------------------------------------------- undisturbed iterations
\* The store after n consecutive iterations in which nothing but the clock
\* and the current changes (no client request, no fault drawn, no threshold
\* crossed, no timer expired), and after one whole undisturbed iteration of
\* any kind.

RECURSIVE LastAbove(_, _)
\* The last iteration count in lo..hi-1 at which the decayed current is still
\* at or above the threshold (Decay does not increase).
LastAbove(lo, hi) ==
  IF hi - lo <= 1 THEN lo
  ELSE LET mid == (lo + hi) \div 2
       IN IF Decay(mid * loop_interval) >= INJECT_THRESHOLD
            THEN LastAbove(mid, hi)
            ELSE LastAbove(lo, mid)

LastBeamTime == LastAbove(0, MaxSimTime \div loop_interval) * loop_interval

\* n undisturbed iterations of the Beam branch.
BeamTicks(s, n) ==
  LET t == s.sim_time + n * loop_interval
  IN [s EXCEPT !.curr_state = 0, !.curr_inject_state = 0,
               !.sim_time = t,
               !.injecting = FALSE,
               !.current_inject_rate = INJECT_RATE,
               !.inject_duration = Duration(INJECT_THRESHOLD, INJECT_RATE),
               !.curr_avg = Decay(t), !.beam_curr_avg = Decay(t),
               !.alarm = 0, !.manual_state_set = FALSE,
               !.last_state = 0, !.pc = "sleep"]

\* n undisturbed iterations of the Injection phase.
RampTicks(s, n) ==
  LET a == IF s.beam_curr_avg < I_0
             THEN Min(s.beam_curr_avg + n * Increment(s.current_inject_rate), I_0)
             ELSE I_0
  IN [s EXCEPT !.curr_state = 1, !.curr_inject_state = 2,
               !.sim_time = @ + n * loop_interval,
               !.inject_timer = @ - n * loop_interval,
               !.curr_avg = a, !.beam_curr_avg = a,
               !.last_state = 1, !.pc = "sleep"]

\* The loop's next step from the suspension point s.pc when no fault is
\* drawn (a timer is at 0 in none of the iterations this is used for).
LoopNext(s) ==
  CASE s.pc = "sleep" -> Start(s, FALSE)
    [] s.pc = "p139" -> PutterReturns(s, 1, "a139")
    [] s.pc = "a139" -> Dispatch(s, FALSE)
    [] s.pc = "p151" -> PutterReturns(s, 1, "a151")
    [] s.pc = "a151" -> Commit(s)
    [] s.pc = "a156" -> AfterRecoveryPhase(s)
    [] s.pc = "p157" -> PutterReturns(s, 0, "a157")
    [] s.pc = "a157" -> AfterRecoveryState(s, FALSE)
    [] s.pc = "a163" -> AfterWaitStart(s)
    [] s.pc = "a170" -> AfterWaitEnd(s)
    [] s.pc = "a181" -> AfterCompletePhase(s)
    [] s.pc = "p182" -> PutterReturns(s, 0, "a182")
    [] s.pc = "a182" -> AfterCompleteState(s)
    [] s.pc = "a200" -> AfterDownPhase(s)
    [] s.pc = "a204" -> AfterCommit(s, FALSE)
    [] s.pc = "p209" -> PutterReturns(s, 3, "a209")
    [] s.pc = "a209" -> AfterFaultState(s)
    [] s.pc = "a211" -> EndTick(s)
    [] s.pc = "a225" -> AfterAlarmClear(s)
    [] OTHER -> s

RECURSIVE ToSleep(_)
\* The loop runs on undisturbed to its next sleep.
ToSleep(s) == IF s.pc \in {"sleep", "crashed"} THEN s ELSE ToSleep(LoopNext(s))

\* One whole undisturbed iteration from the sleep.
Iteration(s) == ToSleep(LoopNext(s))

\* The state after construction: the defaults of the pvproperty
\* declarations, the attributes set in __init__, the locals of the loop
\* before its first iteration.
Constructed ==
  [state |-> 0, inject_state |-> 0, beam_curr_avg |-> 500000000,
   beam_curr_avg_min |-> 50000000, beam_curr_des |-> 500000000,
   alarm |-> 0, debug_injecting |-> FALSE, manual_state_set |-> FALSE,
   injecting |-> FALSE, last_state |-> 0,
   current_inject_rate |-> INJECT_RATE, inject_timer |-> 0, sim_time |-> 0,
   inject_duration |-> Duration(INJECT_THRESHOLD, INJECT_RATE),
   curr_state |-> 0, curr_inject_state |-> 0, curr_avg |-> 500000000,
   pc |-> "sleep", inject_timer_err |-> 0]

\* The sleep after the iteration that entered the Injection phase of the
\* first automatic cycle: the decay down to the threshold, the iteration
\* that crosses it and writes State = Inject, the one that enters Beamline
\* Wait, and the one in which the wait (1 us) is over.
InjectionBegins ==
  Iteration(Iteration(Iteration(
    BeamTicks(Constructed, LastBeamTime \div loop_interval))))

\* The states a behaviour starts in: the constructed one, and the sleeps
\* the program reaches from it by undisturbed iterations only.
StartStates ==
  {Constructed}
    \cup {BeamTicks(Constructed, n) : n \in BeamStarts}
    \cup {RampTicks(InjectionBegins, n) : n \in RampStarts}

NoPending == [v \in 0..3 |-> 0]

\* ------------------------------------------------------------------ actions
Init ==
  /\ \E s \in StartStates :
       /\ state = s.state
       /\ inject_state = s.inject_state
       /\ beam_curr_avg = s.beam_curr_avg
       /\ beam_curr_avg_min = s.beam_curr_avg_min
       /\ beam_curr_des = s.beam_curr_des
       /\ alarm = s.alarm
       /\ debug_injecting = s.debug_injecting
       /\ manual_state_set = s.manual_state_set
       /\ injecting = s.injecting
       /\ last_state = s.last_state
       /\ current_inject_rate = s.current_inject_rate
       /\ inject_timer = s.inject_timer
       /\ sim_time = s.sim_time
       /\ inject_duration = s.inject_duration
       /\ curr_state = s.curr_state
       /\ curr_inject_state = s.curr_inject_state
       /\ curr_avg = s.curr_avg
       /\ pc = s.pc
       /\ inject_timer_err = s.inject_timer_err
  /\ pending = NoPending
  /\ req = <<"none", 0>>
  /\ ret = 0 - 1
  /\ fresh = TRUE
  /\ unackFault = FALSE
  /\ manualCycle = FALSE
  /\ override = FALSE
  /\ ticks = 0
  /\ writes = 0

\* A step of the simulation loop to the store r; starts says whether it
\* begins a new iteration, counted whether it is a wake-up from the sleep.
Engine(r, starts, counted) ==
  /\ Apply(r)
  /\ ticks' = IF counted THEN ticks + 1 ELSE ticks
  /\ fresh' = IF starts THEN TRUE ELSE fresh
  /\ unackFault' = IF r.pc = "p209" THEN TRUE ELSE unackFault
  /\ manualCycle' = IF r.pc = "a181" THEN FALSE ELSE manualCycle
  /\ override' = IF pc = "a182" THEN FALSE ELSE override
  /\ req' = <<"none", 0>>
  /\ ret' = 0 - 1
  /\ UNCHANGED <<writes, pending>>

Tick ==
  /\ pc = "sleep"
  /\ ticks < MaxTicks
  /\ sim_time + loop_interval <= MaxSimTime
  /\ \E e \in BOOLEAN : Engine(Start(S, e), TRUE, TRUE)

Return139 == pc = "p139" /\ Engine(PutterReturns(S, 1, "a139"), FALSE, FALSE)
Return151 == pc = "p151" /\ Engine(PutterReturns(S, 1, "a151"), FALSE, FALSE)
Return157 == pc = "p157" /\ Engine(PutterReturns(S, 0, "a157"), FALSE, FALSE)
Return182 == pc = "p182" /\ Engine(PutterReturns(S, 0, "a182"), FALSE, FALSE)
Return209 == pc = "p209" /\ Engine(PutterReturns(S, 3, "a209"), FALSE, FALSE)

Resume139 ==
  pc = "a139" /\ \E e \in BOOLEAN : Engine(Dispatch(S, e), FALSE, FALSE)
Resume151 == pc = "a151" /\ Engine(Commit(S), FALSE, FALSE)
Resume156 == pc = "a156" /\ Engine(AfterRecoveryPhase(S), FALSE, FALSE)
\* The `continue` of line 159 starts the next iteration without sleeping.
Resume157 ==
  /\ pc = "a157"
  /\ sim_time + loop_interval <= MaxSimTime
  /\ \E e \in BOOLEAN : Engine(AfterRecoveryState(S, e), TRUE, FALSE)
Resume163 == pc = "a163" /\ Engine(AfterWaitStart(S), FALSE, FALSE)
Resume170 == pc = "a170" /\ Engine(AfterWaitEnd(S), FALSE, FALSE)
Resume181 == pc = "a181" /\ Engine(AfterCompletePhase(S), FALSE, FALSE)
Resume182 == pc = "a182" /\ Engine(AfterCompleteState(S), FALSE, FALSE)
Resume200 == pc = "a200" /\ Engine(AfterDownPhase(S), FALSE, FALSE)
Resume204 ==
  pc = "a204" /\ \E f \in BOOLEAN : Engine(AfterCommit(S, f), FALSE, FALSE)
Resume209 == pc = "a209" /\ Engine(AfterFaultState(S), FALSE, FALSE)
Resume211 == pc = "a211" /\ Engine(EndTick(S), FALSE, FALSE)
Resume225 == pc = "a225" /\ Engine(AfterAlarmClear(S), FALSE, FALSE)

\* The external write request q served to the store r with the reply rep.
External(q, r, rep, accState, manInject) ==
  /\ writes < MaxWrites
  /\ Apply(r)
  /\ req' = q
  /\ ret' = rep
  /\ writes' = writes + 1
  /\ fresh' = FALSE
  /\ unackFault' = IF accState THEN FALSE ELSE unackFault
  /\ manualCycle' = manInject
  /\ override' = IF accState /\ q[2] # 1 THEN TRUE ELSE override
  /\ pending' = IF accState THEN [pending EXCEPT ![q[2]] = @ + 1] ELSE pending
  /\ UNCHANGED ticks

\* A client's State request is taken up, whatever other requests are
\* suspended in the putter: refused or invalid, it is answered at once with
\* the value State has; accepted, its putter runs to the await of line 273.
PutState(v) ==
  External(<<"State", v>>, StatePutterFlags(S, v),
           IF StateAccepted(S, v) THEN 0 - 1 ELSE state,
           StateAccepted(S, v), v = 1 /\ state = 3)

\* The suspended putter of one client's State request resumes and returns:
\* the requested value is stored in State and the client is answered.
PutStateReturn ==
  \E v \in 0..3 :
    /\ pending[v] > 0
    /\ Apply(StatePutterStore(S, v))
    /\ req' = <<"State", v>>
    /\ ret' = v
    /\ pending' = [pending EXCEPT ![v] = @ - 1]
    /\ fresh' = FALSE
    /\ UNCHANGED <<unackFault, manualCycle, override, ticks, writes>>

PutInjectState(v) ==
  External(<<"InjectState", v>>, InjectStatePutter(S, v), InjectStatePutter(S, v).inject_state,
           FALSE, FALSE)

PutBeamCurrDes(v) ==
  External(<<"BeamCurrDes", v>>, BeamCurrDesPutter(S, v), BeamCurrDesPutter(S, v).beam_curr_des,
           FALSE, FALSE)

PutBeamCurrAvgMin(v) ==
  External(<<"BeamCurrAvgMin", v>>, BeamCurrAvgMinPutter(S, v),
           BeamCurrAvgMinPutter(S, v).beam_curr_avg_min, FALSE, FALSE)

PutDebugInjecting(v) ==
  External(<<"DebugInjecting", v.index>>,
           DebugInjectingPutter(S, v), v.index, FALSE, FALSE)

PutBeamCurrAvg(v) ==
  External(<<"BeamCurrAvg", v>>, BeamCurrAvgWrite(S, v), BeamCurrAvgWrite(S, v).beam_curr_avg,
           FALSE, FALSE)

PutAlarm(v) ==
  External(<<"Alarm", v>>, AlarmWrite(S, v), AlarmWrite(S, v).alarm, FALSE, FALSE)

PutStateAny == \E v \in StateRequests : PutState(v)
PutInjectStateAny == \E v \in InjectStateRequests : PutInjectState(v)
PutBeamCurrDesAny == \E v \in DesRequests : PutBeamCurrDes(v)
PutBeamCurrAvgMinAny == \E v \in MinRequests : PutBeamCurrAvgMin(v)
PutDebugInjectingAny == \E v \in DebugRequests : PutDebugInjecting(v)
PutBeamCurrAvgAny == \E v \in AvgRequests : PutBeamCurrAvg(v)
PutAlarmAny == \E v \in AlarmRequests : PutAlarm(v)
OperatorPutBeamCurrDes == \E v \in OperatorDesRequests : PutBeamCurrDes(v)
OperatorPutBeamCurrAvgMin ==
  \E v \in OperatorMinRequests : PutBeamCurrAvgMin(v)

Next ==
  \/ Tick
  \/ Return139 \/ Return151 \/ Return157 \/ Return182 \/ Return209
  \/ Resume139 \/ Resume151 \/ Resume156 \/ Resume157 \/ Resume163
  \/ Resume170 \/ Resume181 \/ Resume182 \/ Resume200 \/ Resume204
  \/ Resume209 \/ Resume211 \/ Resume225
  \/ PutStateAny \/ PutStateReturn \/ PutInjectStateAny \/ PutBeamCurrDesAny
  \/ PutBeamCurrAvgMinAny \/ PutDebugInjectingAny
  \/ PutBeamCurrAvgAny \/ PutAlarmAny

Spec == Init /\ [][Next]_vars

\* The same program with clients that never write the two PVs the interface
\* documents as read-only (BeamCurrAvg, Alarm).
NextRO ==
  \/ Tick
  \/ Return139 \/ Return151 \/ Return157 \/ Return182 \/ Return209
  \/ Resume139 \/ Resume151 \/ Resume156 \/ Resume157 \/ Resume163
  \/ Resume170 \/ Resume181 \/ Resume182 \/ Resume200 \/ Resume204
  \/ Resume209 \/ Resume211 \/ Resume225
  \/ PutStateAny \/ PutStateReturn \/ PutInjectStateAny \/ PutBeamCurrDesAny
  \/ PutBeamCurrAvgMinAny \/ PutDebugInjectingAny

SpecRO == Init /\ [][NextRO]_vars

\* The same program with clients that write only the mode and the two
\* set points.
NextOperator ==
  \/ Tick
  \/ Return139 \/ Return151 \/ Return157 \/ Return182 \/ Return209
  \/ Resume139 \/ Resume151 \/ Resume156 \/ Resume157 \/ Resume163
  \/ Resume170 \/ Resume181 \/ Resume182 \/ Resume200 \/ Resume204
  \/ Resume209 \/ Resume211 \/ Resume225
  \/ PutStateAny \/ PutStateReturn \/ OperatorPutBeamCurrDes \/ OperatorPutBeamCurrAvgMin

SpecOperator == Init /\ [][NextOperator]_vars


\* ================================================================== claims

\* The step takes up the external write request q: its putter runs to its
\* return or, for an accepted State request, to its await.
Serves(q) == writes' = writes + 1 /\ req' = q

\* The step is one of the simulation loop, not of a client's request.
LoopStep == writes' = writes /\ pending' = pending

\* The step starts a single loop iteration (from the sleep, or from the
\* `continue` of line 159) and runs it to its first await.
StartsIteration == pc \in {"sleep", "a157"} /\ LoopStep /\ pc' # "sleep"

\* C1.  A request State=Inject made while the mode is not Down and no
\* injection is in progress is refused: State keeps its value, the reply is
\* that value, and manual_state_set, injecting, current_inject_rate and
\* Alarm are left as they were.
C1_RejectedInject ==
  [][ (state # 3 /\ ~injecting /\ Serves(<<"State", 1>>)) =>
        /\ state' = state
        /\ ret' = state
        /\ manual_state_set' = manual_state_set
        /\ injecting' = injecting
        /\ current_inject_rate' = current_inject_rate
        /\ alarm' = alarm
        /\ pending' = pending ]_vars

\* A refused Inject request in Beam has been answered.
C1_Witness == req = <<"State", 1>> /\ ret = 0 /\ state = 0 /\ ~injecting

\* C2.  After an accepted request State=Inject made in Down, and with no
\* further external write, the injection cycle is run: the loop does not
\* take the recovery branch for Inject without the injecting flag, and the
\* Injection phase ramps at INJECT_RATE_SEC.
C2_ManualCycleRuns ==
  manualCycle =>
    /\ pc # "a156"
    /\ inject_state = 2 => current_inject_rate = INJECT_RATE_SEC

\* C3 as claimed.  Every transition of State into Down, the loop's random
\* fault or a manual request, leaves Alarm = WARNING (the putter of a manual
\* Down request, which next stores Down, and the loop's write after the
\* fault), and every other accepted State request sets Alarm = OK.
C3_DownSetsWarning ==
  [][ /\ (state # 3 /\ Serves(<<"State", 3>>)) => alarm' = 1
      /\ (pc = "a209" /\ LoopStep) => (pc' = "a211" /\ alarm' = 1)
      /\ ( /\ writes' = writes + 1 /\ req'[1] = "State"
           /\ StateAccepted(S, req'[2]) /\ ~(state # 3 /\ req'[2] = 3) )
         => alarm' = 0 ]_vars

\* C3 as amended.  The loop's random fault goes on, once State = Down is
\* stored, with the write of Alarm = WARNING, and the putter of every
\* accepted external State request, one for Down included, sets Alarm = OK
\* before it stores the requested mode.
C3_AlarmLifecycle ==
  [][ /\ (pc = "a209" /\ LoopStep) => (pc' = "a211" /\ alarm' = 1)
      /\ ( /\ writes' = writes + 1 /\ req'[1] = "State"
           /\ StateAccepted(S, req'[2]) ) => alarm' = 0 ]_vars

\* A manual Down request has been accepted after the fault's WARNING: the
\* loop is past the fault's alarm write, the request's putter is at its
\* await, and the alarm is back to OK.
C3_Witness ==
  /\ pc = "a211" /\ req = <<"State", 3>> /\ pending[3] = 1
  /\ state = 3 /\ alarm = 0 /\ unackFault = FALSE

\* C4.  Outside the loop's own two fault writes, Alarm = WARNING exactly
\* when State = Down, Down was entered by the random fault, and no external
\* State request has been accepted since.
C4_WarningIffUnackFault ==
  pc \notin {"p209", "a209"} => ((alarm = 1) <=> (state = 3 /\ unackFault))

\* C5.  When the loop sleeps after an iteration that no external write
\* interrupted or followed, InjectState is not No Injection only if State
\* is Inject.
C5_PhaseOnlyInInject ==
  (pc = "sleep" /\ fresh) => (inject_state # 0 => state = 1)

\* C6.  When the loop sleeps after an iteration that no external write
\* interrupted or followed: outside AccPhy, 0 <= BeamCurrAvg <= BeamCurrDes;
\* in AccPhy, BeamCurrAvg >= BeamCurrAvgMin.
C6_CurrentWithinDesired ==
  (pc = "sleep" /\ fresh) =>
    /\ state # 2 => (0 <= beam_curr_avg /\ beam_curr_avg <= beam_curr_des)
    /\ state = 2 => beam_curr_avg >= beam_curr_avg_min

\* C7.  An iteration that starts in Beam with No Injection, without manual
\* override and with the decayed current below INJECT_THRESHOLD sets
\* injecting and calls the write of State = Inject before anything else can
\* run, and the loop's next step, whatever clients requested meanwhile,
\* stores State = Inject, before the iteration commits BeamCurrAvg; and the
\* threshold-triggered write is made only from Beam, No Injection, no
\* manual override.
C7_AutoTrigger ==
  [][ /\ ( /\ StartsIteration
           /\ state = 0 /\ inject_state = 0 /\ ~manual_state_set
           /\ Decay(sim_time + loop_interval) < INJECT_THRESHOLD )
         => (injecting' /\ state' = 0 /\ pc' = "p151")
      /\ (pc = "p151" /\ LoopStep)
         => (state' = 1 /\ injecting' = injecting /\ pc' = "a151")
      /\ (pc # "p151" /\ pc' = "p151")
         => (state = 0 /\ inject_state = 0 /\ ~manual_state_set) ]_vars

\* The loop is suspended in the threshold-triggered write of State = Inject.
C7_Witness ==
  pc = "a151" /\ state = 1 /\ injecting /\ curr_avg < INJECT_THRESHOLD

\* C8.  In the Injection phase BeamCurrAvg never decreases from one
\* iteration to the next, and the iteration in which inject_timer expires
\* (no external write since it started) commits BeamCurrAvg = BeamCurrDes,
\* to within one ramp step, and leaves State = Beam, InjectState = No
\* Injection, injecting and manual_state_set false, sim_time = 0.
C8_InjectionConverges ==
  [][ /\ ( /\ state = 1 /\ inject_state = 2 /\ injecting
           /\ Tick \/ Resume182 )
         => beam_curr_avg' >= beam_curr_avg
      /\ (fresh /\ Resume182)
         => /\ beam_curr_des - beam_curr_avg' \in
                 0..Increment(current_inject_rate)
            /\ state' = 0 /\ inject_state' = 0
            /\ ~injecting' /\ ~manual_state_set'
            /\ sim_time' = 0 ]_vars

\* C9.  An external write request to BeamCurrAvg or to Alarm leaves the
\* stored value of that PV as it was.
C9_ReadOnlyPVs ==
  [][ /\ (\E v \in AvgRequests : PutBeamCurrAvg(v))
         => beam_curr_avg' = beam_curr_avg
      /\ (\E v \in AlarmRequests : PutAlarm(v))
         => alarm' = alarm ]_vars

\* C10.  Wherever the loop is suspended, the store shows no half-written
\* iteration: not State = Down with Alarm = OK in the middle of the random
\* fault, and not the new State = Inject with the BeamCurrAvg of the
\* previous iteration.
C10_NoTornState ==
  /\ ~(pc = "a209" /\ state = 3 /\ alarm = 0)
  /\ ~(pc = "a151" /\ state = 1 /\ beam_curr_avg # curr_avg)

\* C11.  The simulation loop never ends: no iteration, in any mode and after
\* any accepted external writes, stops the coroutine with an exception.
C11_LoopNeverHalts == pc # "crashed"

\* Everything but the two set points: the other PVs, the attributes of the
\* group and the locals of the loop.
NotSetPoints ==
  <<state, inject_state, beam_curr_avg, alarm, debug_injecting,
    manual_state_set, injecting, last_state, current_inject_rate,
    inject_timer, sim_time, inject_duration, curr_state, curr_inject_state,
    curr_avg, pc, inject_timer_err>>

\* The requested value v brought into lo..hi.
Clamped(v, lo, hi) == IF v < lo THEN lo ELSE IF v > hi THEN hi ELSE v

\* C12.  A write request to BeamCurrDes stores and returns the requested
\* value brought into 0..500 mA, one to BeamCurrAvgMin the requested value
\* brought into 0..100 mA; neither changes the other set point, any other
\* PV, any attribute of the group or any local of the loop.
C12_SetPointClamp ==
  [][ /\ (writes' = writes + 1 /\ req'[1] = "BeamCurrDes")
         => /\ beam_curr_des' = Clamped(req'[2], 0, 500000000)
            /\ ret' = beam_curr_des'
            /\ beam_curr_avg_min' = beam_curr_avg_min
            /\ NotSetPoints' = NotSetPoints
      /\ (writes' = writes + 1 /\ req'[1] = "BeamCurrAvgMin")
         => /\ beam_curr_avg_min' = Clamped(req'[2], 0, 100000000)
            /\ ret' = beam_curr_avg_min'
            /\ beam_curr_des' = beam_curr_des
            /\ NotSetPoints' = NotSetPoints ]_vars

\* BeamCurrAvgMin = 150 mA has been requested and stored as 100 mA, after
\* BeamCurrDes was stored as 0 for a negative request, in the middle of an
\* iteration.
C12_Witness ==
  /\ req = <<"BeamCurrAvgMin", 150000000>> /\ ret = 100000000
  /\ beam_curr_avg_min = 100000000 /\ beam_curr_des = 0
  /\ pc = "a204"

\* C13.  From an accepted external State request for a mode other than
\* Inject until an injection cycle completes, manual_state_set stays true
\* and the loop makes no threshold-triggered write of State = Inject.
C13_OverrideHeld ==
  [][ (override /\ override') =>
        /\ manual_state_set'
        /\ ~(pc # "p151" /\ pc' = "p151") ]_vars

\* The step stores BeamCurrAvg at line 204 for an iteration that took the
\* Beam branch.
BeamCommit ==
  /\ LoopStep
  /\ curr_state' = 0
  /\ pc # "a204" /\ pc' = "a204"

\* C14.  Every Beam iteration stores BeamCurrAvg = I_0 * exp(-sim_time / tau)
\* for the sim_time of that iteration, and when the iteration before it was
\* a Beam iteration too the stored value does not increase.
C14_BeamDecay ==
  [][ BeamCommit =>
        /\ beam_curr_avg' = Decay(sim_time')
        /\ last_state = 0 => beam_curr_avg' <= beam_curr_avg ]_vars

\* The loop sleeps after Beam iterations only, no manual override, no
\* external write: BeamCurrAvg has decayed by more than 1 mA and is still
\* above the threshold.
C14_Witness ==
  /\ pc = "sleep" /\ state = 0 /\ last_state = 0 /\ ~manual_state_set
  /\ writes = 0 /\ ticks > 0
  /\ beam_curr_avg = Decay(sim_time)
  /\ beam_curr_avg < 499000000 /\ beam_curr_avg >= INJECT_THRESHOLD

\* C15.  The iteration that detects the Down-to-Beam edge (previous
\* iteration in Down, manual override set, State written to Beam) and is
\* not interrupted by an external write goes on, after its write of
\* State = Inject, with State = Inject, injecting set and the rate
\* INJECT_RATE_SEC, and does not replace the current by the decay formula.
C15_EdgeStartsInjection ==
  [][ (pc = "a139" /\ fresh /\ LoopStep) =>
        /\ state' = 1
        /\ injecting'
        /\ current_inject_rate' = INJECT_RATE_SEC
        /\ curr_avg' = curr_avg ]_vars

\* C16.  When an external State request has been served to its end while an
\* iteration is suspended at one of its writes and has left in State the
\* requested mode, another one than the iteration's snapshot, the step the
\* iteration resumes with does not write State again from that snapshot (the
\* random fault of line 209 apart).
C16_ExternalModeKept ==
  [][ ( /\ pc \notin {"sleep", "a157", "crashed", "p209"}
        /\ req[1] = "State" /\ req[2] \in 0..3 /\ ret = req[2]
        /\ req[2] # curr_state
        /\ LoopStep )
      => state' = state ]_vars

\* C17.  The first iteration with State = Beam after an iteration in another
\* mode (the previous iteration was not a Beam one, or the loop comes from
\* the recovery of lines 155-159) runs with sim_time equal to one loop
\* interval: sim_time was reset to 0 on the return to Beam.
C17_SimTimeResetOnBeam ==
  [][ /\ (pc = "sleep" /\ StartsIteration /\ state = 0 /\ last_state # 0)
         => sim_time' = loop_interval
      /\ (pc = "a157" /\ StartsIteration /\ state = 0)
         => sim_time' = loop_interval ]_vars

\* The recovery of lines 155-157, run without an external write in between:
\* InjectState is written No Injection and State Beam, BeamCurrAvg is left
\* alone, and the loop goes on to line 158 (injecting = False, continue).
RecoveryCompletes ==
  /\ (pc = "a156" /\ fresh /\ LoopStep) =>
        /\ inject_state' = 0 /\ beam_curr_avg' = beam_curr_avg
        /\ pc' = "p157"
  /\ (pc = "p157" /\ fresh /\ LoopStep) =>
        /\ state' = 0 /\ inject_state' = 0
        /\ beam_curr_avg' = beam_curr_avg
        /\ pc' = "a157"

\* C18 as claimed.  Every iteration that starts from the sleep with
\* State = Inject and injecting false takes the recovery: it leaves
\* State = Beam, InjectState = No Injection, injecting false, BeamCurrAvg as
\* it was, and the loop running.
C18_RecoveryAlways ==
  [][ /\ (pc = "sleep" /\ StartsIteration /\ state = 1 /\ ~injecting)
         => (pc' = "a156" /\ inject_state' = 0 /\ ~injecting'
             /\ beam_curr_avg' = beam_curr_avg)
      /\ RecoveryCompletes ]_vars

\* C18 as amended.  An iteration that starts from the sleep with
\* State = Inject and injecting false takes the recovery unless it detects
\* the Down edge of line 133 (previous iteration in Down, manual override
\* set); on that edge it sets injecting and runs the injection phases
\* instead.  The recovery leaves State = Beam, InjectState = No Injection,
\* injecting false, BeamCurrAvg as it was, and the loop running.
C18_RecoveryUnlessEdge ==
  [][ /\ ( /\ pc = "sleep" /\ StartsIteration /\ state = 1 /\ ~injecting
           /\ ~(last_state = 3 /\ manual_state_set) )
         => (pc' = "a156" /\ inject_state' = 0 /\ ~injecting'
             /\ beam_curr_avg' = beam_curr_avg)
      /\ ( /\ pc = "sleep" /\ StartsIteration /\ state = 1 /\ ~injecting
           /\ last_state = 3 /\ manual_state_set )
         => (injecting' /\ state' = 1
             /\ pc' \in {"a163", "a170", "a181", "a204"})
      /\ RecoveryCompletes ]_vars

\* The recovery has run without an external write in between: the loop is
\* at the `continue` with State = Beam and InjectState = No Injection.
C18_Witness ==
  /\ pc = "a157" /\ fresh /\ curr_state = 1 /\ ~injecting
  /\ state = 0 /\ inject_state = 0 /\ beam_curr_avg = curr_avg

\* C19.  Down is left only by an accepted external State request.  An
\* iteration that starts with State = Down and is not interrupted by an
\* external write keeps State = Down and Alarm as it was, writes
\* InjectState = No Injection if it was not, stores BeamCurrAvg = 0, resets
\* injecting, and draws no fault; and no step of the loop takes State from
\* Down to another mode.
C19_DownAbsorbing ==
  [][ /\ (StartsIteration /\ state = 3)
         => /\ curr_state' = 3 /\ state' = 3 /\ alarm' = alarm
            /\ inject_state' = 0
            /\ pc' = (IF inject_state # 0 THEN "a200" ELSE "a204")
            /\ pc' = "a204" => (beam_curr_avg' = 0 /\ ~injecting')
      /\ (curr_state = 3 /\ pc \in {"a200", "a204"} /\ fresh /\ LoopStep)
         => /\ state' = 3 /\ alarm' = alarm /\ inject_state' = 0
            /\ beam_curr_avg' = 0 /\ ~injecting'
            /\ pc' = (IF pc = "a200" THEN "a204" ELSE "sleep")
      /\ (state = 3 /\ state' # 3) => ~LoopStep ]_vars

\* C20.  In a behaviour without external writes, once State = Inject with
\* injecting set and InjectState is Beamline Wait or Injection, the loop
\* draws no random fault, InjectState goes Beamline Wait, Injection, No
\* Injection in that order, and State stays Inject until it is written Beam
\* together with InjectState = No Injection.
C20_CycleTerminates ==
  [][ ( /\ writes = 0 /\ writes' = 0
        /\ state = 1 /\ injecting /\ inject_state \in {1, 2} )
      => /\ pc' # "p209"
         /\ state' # 3
         /\ inject_state' \in {inject_state, (inject_state + 1) % 3}
         /\ state' = 0 => inject_state' = 0 ]_vars

====
